---- MODULE Spec2Model ----
(***************************************************************************)
(* A model of the libreoffice-voikko glue code:                            *)
(*   - voikko::SpellAlternatives (src/spellchecker/SpellAlternatives.hxx), *)
(*     the XSpellAlternatives result object handed to the host;            *)
(*   - voikko::getInstallationPath and voikko::getRegistryProperties       *)
(*     (src/common.cxx).                                                   *)
(* SpellAlternatives.hxx declares the class; the bodies of its accessors   *)
(* and the spell checker that fills it in are modelled from the            *)
(* specification of the result object.                                     *)
(***************************************************************************)
EXTENDS Integers, Sequences, FiniteSets, TLC

VARIABLES heap, req, rd, ip, rp

vars == <<heap, req, rd, ip, rp>>

(***************************************************************************)
(* Bounds and value universes                                              *)
(***************************************************************************)

\* longest list of suggestions enumerated string by string
MaxAlts == 2

\* width of sal_Int16, the return type of getAlternativesCount
SalInt16Bits == 16

Objects == {"o1", "o2"}

Readers == {"r1", "r2"}

Words == {"helo", "Teh"}

\* the replacement candidates the analyzer knows for a word
Candidates(w) == IF w = "helo" THEN {"hello", "help", "held"} ELSE {"The", "Tea"}

Ops == {"getWord", "getLocale", "getFailureType", "getAlternativesCount", "getAlternatives"}

RECURSIVE Pow2(_)
Pow2(n) == IF n = 0 THEN 1 ELSE 2 * Pow2(n - 1)

SalInt16Max == Pow2(SalInt16Bits - 1) - 1

\* a sal_Int32 length narrowed to sal_Int16, as the return statement of a
\* function declared to return sal_Int16 does
ToSalInt16(n) ==
    LET m == n % Pow2(SalInt16Bits)
    IN  IF m > SalInt16Max THEN m - Pow2(SalInt16Bits) ELSE m

(***************************************************************************)
(* uno::Sequence<OUString>.  A sequence is written [head, more]: the       *)
(* strings of head, followed by `more` further suggestions that differ     *)
(* from each other and from every candidate ("suggestion1", ...).  Equal   *)
(* records are equal sequences.                                            *)
(***************************************************************************)

Sequence(head, more) == [head |-> head, more |-> more]

getLength(s) == Len(s.head) + s.more

Element(s, i) ==
    IF i <= Len(s.head) THEN s.head[i] ELSE "suggestion" \o ToString(i - Len(s.head))

NoDuplicates(s) ==
    \A i, j \in 1..getLength(s) : Element(s, i) = Element(s, j) => i = j

\* the ranked, duplicate-free lists of at most n of the candidates in c
RECURSIVE RankedLists(_, _)
RankedLists(c, n) ==
    IF n = 0 THEN {<<>>}
    ELSE LET shorter == RankedLists(c, n - 1)
         IN  shorter \cup {Append(l, x) : l \in {y \in shorter : Len(y) = n - 1},
                                          x \in c}

\* what the analyzer can ask a result to be built with: a word and a ranked,
\* duplicate-free sequence of its candidates
Requests ==
    UNION {{[word |-> w, alternatives |-> Sequence(l, 0)] :
               l \in {x \in RankedLists(Candidates(w), MaxAlts) :
                         NoDuplicates(Sequence(x, 0))}} : w \in Words}

\* requests whose suggestions fill a sal_Int16 exactly, and exceed it by one
WideRequests ==
    Requests \cup
    {[word |-> w, alternatives |-> Sequence(<<>>, n)] :
        w \in Words, n \in {SalInt16Max, SalInt16Max + 1}}

(***************************************************************************)
(* SpellAlternatives: the object                                           *)
(***************************************************************************)

\* OUString word: default-constructed empty
DefaultWord == ""

\* uno::Sequence<OUString> alternatives: default-constructed empty, never absent
DefaultAlternatives == Sequence(<<>>, 0)

\* word shared by all instances, as a static data member would be
StoreWordStatic(h, o, w) == [p \in DOMAIN h |-> [h[p] EXCEPT !.word = w]]

FoldCase(w) == IF w = "Teh" THEN "teh" ELSE w

\* the word normalised on the way into the member
StoreWordFolded(h, o, w) == [h EXCEPT ![o].word = FoldCase(w)]

\* assignment to the per-instance data member word
StoreWord(h, o, w) == [h EXCEPT ![o].word = w]

\* alternatives shared by all instances, as a static data member would be
StoreAlternativesStatic(h, o, a) == [p \in DOMAIN h |-> [h[p] EXCEPT !.alternatives = a]]

Reverse(l) == [i \in 1..Len(l) |-> l[Len(l) + 1 - i]]

\* the ranked candidates copied into the member back to front
StoreAlternativesReversed(h, o, a) ==
    [h EXCEPT ![o].alternatives = Sequence(Reverse(a.head), a.more)]

\* assignment to the per-instance data member alternatives
StoreAlternatives(h, o, a) == [h EXCEPT ![o].alternatives = a]

getWord(o) == heap[o].word

getLocale(o) == "fi-FI"

getFailureType(o) == "NOT_IN_DICTIONARY"

getAlternativesCount(o) == ToSalInt16(getLength(heap[o].alternatives))

\* every suggestion returned twice
getAlternativesDoubled(o) ==
    Sequence(heap[o].alternatives.head \o heap[o].alternatives.head,
             2 * heap[o].alternatives.more)

getAlternatives(o) == heap[o].alternatives

\* the value an accessor call on o returns
Accessor(o, op) ==
    CASE op = "getWord" -> getWord(o)
      [] op = "getLocale" -> getLocale(o)
      [] op = "getFailureType" -> getFailureType(o)
      [] op = "getAlternativesCount" -> getAlternativesCount(o)
      [] op = "getAlternatives" -> getAlternatives(o)

Live(o) == heap[o].state = "live"

(***************************************************************************)
(* The analyzer builds a result; readers query published results           *)
(***************************************************************************)

\* new SpellAlternatives(): both members default-constructed; o2 is the
\* second object allocated
NewSpellAlternatives(o, r) ==
    /\ heap[o].state = "free"
    /\ o = "o2" => heap["o1"].state # "free"
    /\ heap' = [heap EXCEPT ![o] = [state |-> "new", word |-> DefaultWord,
                                    alternatives |-> DefaultAlternatives]]
    /\ req' = [req EXCEPT ![o] = r]
    /\ UNCHANGED <<rd, ip, rp>>

SetWord(o) ==
    /\ heap[o].state = "new"
    /\ heap' = [StoreWord(heap, o, req[o].word) EXCEPT ![o].state = "wordSet"]
    /\ UNCHANGED <<req, rd, ip, rp>>

SetAlternatives(o) ==
    /\ heap[o].state = "wordSet"
    /\ heap' = [StoreAlternatives(heap, o, req[o].alternatives) EXCEPT ![o].state = "filled"]
    /\ UNCHANGED <<req, rd, ip, rp>>

\* the analyzer returns the reference to its caller
Publish(o) ==
    /\ heap[o].state = "filled"
    /\ heap' = [heap EXCEPT ![o].state = "live"]
    /\ UNCHANGED <<req, rd, ip, rp>>

\* a thread enters an accessor of a published result
Call(t, o, op) ==
    /\ rd[t].pc # "called"
    /\ Live(o)
    /\ rd' = [rd EXCEPT ![t] = [pc |-> "called", obj |-> o, op |-> op, ret |-> <<>>]]
    /\ UNCHANGED <<heap, req, ip, rp>>

\* the accessor reads the object and returns
Return(t) ==
    /\ rd[t].pc = "called"
    /\ rd' = [rd EXCEPT ![t].pc = "done", ![t].ret = <<Accessor(rd[t].obj, rd[t].op)>>]
    /\ UNCHANGED <<heap, req, ip, rp>>

InitHeap ==
    /\ heap = [o \in Objects |-> [state |-> "free", word |-> DefaultWord,
                                  alternatives |-> DefaultAlternatives]]
    /\ req = [o \in Objects |-> [word |-> DefaultWord, alternatives |-> DefaultAlternatives]]
    /\ rd = [t \in Readers |-> [pc |-> "idle", obj |-> "o1", op |-> "getWord", ret |-> <<>>]]

(***************************************************************************)
(* common.cxx: getInstallationPath                                         *)
(***************************************************************************)

Null == "null"

NoException == "none"

\* package locations the information provider can report; "" is the empty list
LocationURLs ==
    { <<"file://", "/opt", "/voikko">>,
      <<"file://", "/my%20extensions", "/voikko">>,
      <<"vnd.sun.star.expand:", "$UNO_USER_PACKAGES_CACHE">>,
      <<>> }

EmptyString == <<>>

PercentDecode(part) == IF part = "/my%20extensions" THEN "/my extensions" ELSE part

\* osl::FileBase::getSystemPathFromFileURL: the error code and the value it
\* leaves in the output parameter, which held `out` before the call
getSystemPathFromFileURL(url, out) ==
    IF Len(url) > 0 /\ Head(url) = "file://"
    THEN [rc |-> "E_None", path |-> [i \in 1..(Len(url) - 1) |-> PercentDecode(url[i + 1])]]
    ELSE [rc |-> "E_INVAL", path |-> out]

\* a try block that starts only after the provider has been obtained
InstallationPathTryBlockNarrow == {"getPackageLocation", "getSystemPath"}

\* the statements of getInstallationPath inside try { }
InstallationPathTryBlock == {"getProvider", "getPackageLocation", "getSystemPath"}

\* where control goes when the statement at `stage` throws a uno::Exception
Raise(stage, tryBlock) == IF stage \in tryBlock THEN "catch" ELSE "escaped"

IdleIP == [pc |-> "idle", url |-> EmptyString, ret |-> EmptyString, thrown |-> NoException]

IP_Enter ==
    /\ ip.pc = "idle"
    /\ ip' = [IdleIP EXCEPT !.pc = "getProvider"]
    /\ UNCHANGED <<heap, req, rd, rp>>

\* deployment::PackageInformationProvider::get(compContext)
IP_GetProvider(throws) ==
    /\ ip.pc = "getProvider"
    /\ ip' = IF throws
             THEN [ip EXCEPT !.pc = Raise("getProvider", InstallationPathTryBlock),
                             !.thrown = "getProvider"]
             ELSE [ip EXCEPT !.pc = "getPackageLocation"]
    /\ UNCHANGED <<heap, req, rd, rp>>

\* provider->getPackageLocation("org.puimula.ooovoikko") returns
IP_GetPackageLocation(url) ==
    /\ ip.pc = "getPackageLocation"
    /\ ip' = [ip EXCEPT !.pc = "getSystemPath", !.url = url]
    /\ UNCHANGED <<heap, req, rd, rp>>

\* provider->getPackageLocation("org.puimula.ooovoikko") throws
IP_GetPackageLocationThrows ==
    /\ ip.pc = "getPackageLocation"
    /\ ip' = [ip EXCEPT !.pc = Raise("getPackageLocation", InstallationPathTryBlock),
                        !.thrown = "getPackageLocation"]
    /\ UNCHANGED <<heap, req, rd, rp>>

\* returning the location URL itself, unconverted
InstallationPathResultURL(url) == url

\* OUString locationSystemPath; getSystemPathFromFileURL(...); return locationSystemPath
InstallationPathResult(url) == getSystemPathFromFileURL(url, EmptyString).path

IP_ReturnSystemPath ==
    /\ ip.pc = "getSystemPath"
    /\ ip' = [ip EXCEPT !.pc = "done", !.ret = InstallationPathResult(ip.url)]
    /\ UNCHANGED <<heap, req, rd, rp>>

\* catch (uno::Exception e) { return A2OU(""); }
IP_Catch ==
    /\ ip.pc = "catch"
    /\ ip' = [ip EXCEPT !.pc = "done", !.ret = EmptyString]
    /\ UNCHANGED <<heap, req, rd, rp>>

\* the caller has the result (or the exception) and may call again
IP_Leave ==
    /\ ip.pc \in {"done", "escaped"}
    /\ ip' = IdleIP
    /\ UNCHANGED <<heap, req, rd, rp>>

(***************************************************************************)
(* common.cxx: getRegistryProperties                                       *)
(***************************************************************************)

Groups == {"/org.puimula.ooovoikko.Config/dictionary",
           "/org.puimula.ooovoikko.Config/hyphenator"}

\* what createInstanceWithContext can hand back: nothing, or a component that
\* does or does not export lang::XMultiServiceFactory
Components == {Null, "ConfigurationProvider", "NotAFactory"}

\* the statements of getRegistryProperties inside try { }
RegistryTryBlock == {"createInstanceWithArguments"}

IdleRP == [pc |-> "idle", group |-> Null, servManager |-> Null, iFace |-> Null,
           provider |-> Null, rootView |-> Null, ret |-> Null, thrown |-> NoException]

RP_Enter(group) ==
    /\ rp.pc = "idle"
    /\ rp' = [IdleRP EXCEPT !.pc = "getServiceManager", !.group = group]
    /\ UNCHANGED <<heap, req, rd, ip>>

\* servManager = compContext->getServiceManager(); if (!servManager.is()) return rootView;
RP_GetServiceManager(sm) ==
    /\ rp.pc = "getServiceManager"
    /\ rp' = IF sm = Null
             THEN [rp EXCEPT !.pc = "done", !.ret = rp.rootView]
             ELSE [rp EXCEPT !.pc = "createInstanceWithContext", !.servManager = sm]
    /\ UNCHANGED <<heap, req, rd, ip>>

\* iFace = servManager->createInstanceWithContext(...); if (!iFace.is()) return rootView;
RP_CreateInstanceWithContext(c) ==
    /\ rp.pc = "createInstanceWithContext"
    /\ rp' = IF c = Null
             THEN [rp EXCEPT !.pc = "done", !.ret = rp.rootView]
             ELSE [rp EXCEPT !.pc = "queryProvider", !.iFace = c]
    /\ UNCHANGED <<heap, req, rd, ip>>

\* createInstanceWithContext raises com::sun::star::uno::Exception
RP_CreateInstanceWithContextThrows ==
    /\ rp.pc = "createInstanceWithContext"
    /\ rp' = [rp EXCEPT !.pc = Raise("createInstanceWithContext", RegistryTryBlock),
                        !.thrown = "createInstanceWithContext"]
    /\ UNCHANGED <<heap, req, rd, ip>>

\* provider(iFace, uno::UNO_QUERY); if (!provider.is()) return rootView;
RP_QueryProvider ==
    /\ rp.pc = "queryProvider"
    /\ rp' = IF rp.iFace = "ConfigurationProvider"
             THEN [rp EXCEPT !.pc = "createInstanceWithArguments", !.provider = rp.iFace]
             ELSE [rp EXCEPT !.pc = "done", !.ret = rp.rootView]
    /\ UNCHANGED <<heap, req, rd, ip>>

\* rootView = provider->createInstanceWithArguments(...) returns
RP_CreateInstanceWithArguments(view) ==
    /\ rp.pc = "createInstanceWithArguments"
    /\ rp' = [rp EXCEPT !.pc = "checkRootView", !.rootView = view]
    /\ UNCHANGED <<heap, req, rd, ip>>

\* provider->createInstanceWithArguments(...) throws before rootView is assigned
RP_CreateInstanceWithArgumentsThrows ==
    /\ rp.pc = "createInstanceWithArguments"
    /\ rp' = [rp EXCEPT !.pc = Raise("createInstanceWithArguments", RegistryTryBlock),
                        !.thrown = "createInstanceWithArguments"]
    /\ UNCHANGED <<heap, req, rd, ip>>

\* catch (uno::Exception e) { return rootView; }
RP_Catch ==
    /\ rp.pc = "catch"
    /\ rp' = [rp EXCEPT !.pc = "done", !.ret = rp.rootView]
    /\ UNCHANGED <<heap, req, rd, ip>>

\* if (!rootView.is()) { debug message } return rootView;
RP_ReturnRootView ==
    /\ rp.pc = "checkRootView"
    /\ rp' = [rp EXCEPT !.pc = "done", !.ret = rp.rootView]
    /\ UNCHANGED <<heap, req, rd, ip>>

RP_Leave ==
    /\ rp.pc \in {"done", "escaped"}
    /\ rp' = IdleRP
    /\ UNCHANGED <<heap, req, rd, ip>>

\* the configuration views createInstanceWithArguments can return for a group
RootViews(group) == {Null, <<"ConfigurationUpdateAccess", group>>}

(***************************************************************************)
(* Specifications                                                          *)
(***************************************************************************)

InitCommon ==
    /\ ip = IdleIP
    /\ rp = IdleRP

Init == InitHeap /\ InitCommon

\* results for short suggestion lists, built and read concurrently
Next ==
    \/ \E o \in Objects, r \in Requests : NewSpellAlternatives(o, r)
    \/ \E o \in Objects : SetWord(o)
    \/ \E o \in Objects : SetAlternatives(o)
    \/ \E o \in Objects : Publish(o)
    \/ \E t \in Readers, o \in Objects, op \in Ops : Call(t, o, op)
    \/ \E t \in Readers : Return(t)

Spec == Init /\ [][Next]_vars

\* one result, one reader, suggestion lists up to the limit of sal_Int16 and past it
NextWide ==
    \/ \E r \in WideRequests : NewSpellAlternatives("o1", r)
    \/ SetWord("o1")
    \/ SetAlternatives("o1")
    \/ Publish("o1")
    \/ \E op \in Ops : Call("r1", "o1", op)
    \/ Return("r1")

SpecWide == Init /\ [][NextWide]_vars

\* the two lookups of common.cxx, called by independent callers
NextCommon ==
    \/ IP_Enter
    \/ \E throws \in BOOLEAN : IP_GetProvider(throws)
    \/ \E url \in LocationURLs : IP_GetPackageLocation(url)
    \/ IP_GetPackageLocationThrows
    \/ IP_ReturnSystemPath
    \/ IP_Catch
    \/ IP_Leave
    \/ \E group \in Groups : RP_Enter(group)
    \/ \E sm \in {Null, "ServiceManager"} : RP_GetServiceManager(sm)
    \/ \E c \in Components : RP_CreateInstanceWithContext(c)
    \/ RP_CreateInstanceWithContextThrows
    \/ RP_QueryProvider
    \/ \E view \in RootViews(rp.group) : RP_CreateInstanceWithArguments(view)
    \/ RP_CreateInstanceWithArgumentsThrows
    \/ RP_Catch
    \/ RP_ReturnRootView
    \/ RP_Leave

SpecCommon == Init /\ [][NextCommon]_vars

(***************************************************************************)
(* Properties of SpellAlternatives                                         *)
(***************************************************************************)

Done(t, op) == rd[t].pc = "done" /\ rd[t].op = op

\* the value the accessor returned to reader t
Returned(t) == rd[t].ret[1]

\* what a result built from request r answers to op
Constructed(r, op) ==
    CASE op = "getWord" -> r.word
      [] op = "getLocale" -> "fi-FI"
      [] op = "getFailureType" -> "NOT_IN_DICTIONARY"
      [] op = "getAlternativesCount" -> ToSalInt16(getLength(r.alternatives))
      [] op = "getAlternatives" -> r.alternatives

\* C1: getAlternativesCount() returns exactly the number of elements of the
\* sequence getAlternatives() returns; built with zero alternatives, the count
\* is 0 and getAlternatives() is the empty sequence.
CountEqualsLengthOfAlternatives ==
    \A t \in Readers :
        Done(t, "getAlternativesCount") =>
            /\ Returned(t) = getLength(getAlternatives(rd[t].obj))
            /\ getLength(req[rd[t].obj].alternatives) = 0 =>
                   Returned(t) = 0 /\ getAlternatives(rd[t].obj) = Sequence(<<>>, 0)

\* C2: once a result is published, every accessor answers every call on it
\* with the same value: any two completed calls of the same accessor on the
\* same result returned equal values, and a value returned earlier is still
\* the value the accessor returns now, whatever happened in between.
AccessorsAlwaysReturnTheSame ==
    /\ \A t, u \in Readers :
           (rd[t].pc = "done" /\ rd[u].pc = "done"
               /\ rd[t].obj = rd[u].obj /\ rd[t].op = rd[u].op)
           => rd[t].ret = rd[u].ret
    /\ \A t \in Readers :
           rd[t].pc = "done" => Returned(t) = Accessor(rd[t].obj, rd[t].op)

\* two readers have queried the same result while the other result was being built
AccessorsAlwaysReturnTheSameWitness ==
    /\ Done("r1", "getWord") /\ Done("r2", "getWord")
    /\ rd["r1"].obj = "o1" /\ rd["r2"].obj = "o1"
    /\ heap["o2"].state = "live"
    /\ req["o2"].word # req["o1"].word
    /\ req["o2"].alternatives # req["o1"].alternatives

GetWordReturnsInputWord ==
    \A t \in Readers : Done(t, "getWord") => Returned(t) = req[rd[t].obj].word

GetWordReturnsInputWordWitness ==
    \E t \in Readers : Done(t, "getWord") /\ Returned(t) = "Teh"

\* C5: getAlternatives() returns all the candidates supplied at construction,
\* element i of the result being element i of the input.
GetAlternativesKeepsOrder ==
    \A t \in Readers :
        Done(t, "getAlternatives") =>
            /\ getLength(Returned(t)) = getLength(req[rd[t].obj].alternatives)
            /\ \A i \in 1..getLength(Returned(t)) :
                   Element(Returned(t), i) = Element(req[rd[t].obj].alternatives, i)

GetAlternativesKeepsOrderWitness ==
    \E t \in Readers : Done(t, "getAlternatives") /\ Returned(t) = Sequence(<<"hello", "help">>, 0)

\* C7: while results are built and read concurrently, every accessor call
\* returns the value its own result was constructed with, and every published
\* result holds exactly its own construction input.
ResultsAreIsolated ==
    /\ \A o \in Objects :
           Live(o) => /\ heap[o].word = req[o].word
                      /\ heap[o].alternatives = req[o].alternatives
    /\ \A t \in Readers :
           rd[t].pc = "done" => Returned(t) = Constructed(req[rd[t].obj], rd[t].op)

\* a read of one result completed while a result for another word is half built
\* and the other reader is inside an accessor
ResultsAreIsolatedWitness ==
    /\ rd["r1"].pc = "done" /\ rd["r1"].obj = "o1" /\ rd["r1"].op = "getAlternatives"
    /\ rd["r2"].pc = "called" /\ rd["r2"].obj = "o1"
    /\ heap["o2"].state = "filled"
    /\ req["o1"].word # req["o2"].word
    /\ req["o1"].alternatives # req["o2"].alternatives

\* C8: getAlternativesCount() returns an integer >= 0 that is the number of
\* candidate replacements, for every length of the alternatives sequence.
CountIsNonNegativeNumberOfCandidates ==
    \A t \in Readers :
        Done(t, "getAlternativesCount") =>
            /\ Returned(t) >= 0
            /\ Returned(t) = getLength(req[rd[t].obj].alternatives)

(***************************************************************************)
(* Properties of common.cxx                                                *)
(***************************************************************************)

Finished(call) == call.pc \in {"done", "escaped"}

\* a step of the registry lookup failed
RegistryLookupFailed ==
    \/ rp.servManager = Null
    \/ rp.iFace = Null
    \/ rp.provider = Null
    \/ rp.thrown # NoException

\* C9: getRegistryProperties returns an empty reference and lets no exception
\* escape whenever a step of the lookup fails, and returns a non-empty
\* reference only when every step succeeded and the root view is non-empty.
RegistryFailureReturnsEmpty ==
    Finished(rp) =>
        /\ RegistryLookupFailed => rp.pc = "done" /\ rp.ret = Null
        /\ (rp.pc = "done" /\ rp.ret # Null) =>
               ~RegistryLookupFailed /\ rp.rootView # Null /\ rp.ret = rp.rootView

\* C10: getInstallationPath never lets an exception out: when obtaining the
\* provider or the package location throws it returns the empty string, and
\* otherwise the system path converted from the package's location URL.
InstallationPathNeverPropagates ==
    Finished(ip) =>
        /\ ip.pc = "done"
        /\ ip.thrown # NoException => ip.ret = EmptyString
        /\ ip.thrown = NoException =>
               ip.ret = getSystemPathFromFileURL(ip.url, EmptyString).path

\* the provider factory threw and the caller got ""
InstallationPathNeverPropagatesWitness ==
    ip.pc = "done" /\ ip.thrown = "getProvider" /\ ip.ret = EmptyString

====
